---- MODULE Spec2Model ----
(***************************************************************************)
(* Image stream strategies (pkg/image/registry/imagestream/strategy.go):   *)
(* create, user update, status update and internal update of one image     *)
(* stream lineage, with the tag verifier, the change detector, the         *)
(* generation stamping and the resolve pass that appends tag history.      *)
(*                                                                         *)
(* Representation.  A Go pointer (to an int64, to an ObjectReference, a    *)
(* nil old stream) is a sequence of length 0 (nil) or 1 (the pointee). A   *)
(* Go string that the code splits or compares by content (a from.name, a   *)
(* stream name, a docker reference) is a sequence of tokens, so that       *)
(* strings.Split is computed and not assumed.  A Go map is a function      *)
(* whose DOMAIN is the set of keys present.                                *)
(*                                                                         *)
(* Specifications.  Spec: every strategy on one lineage, stored or not at  *)
(* the start.  UserSpec: the user and status strategies on a lineage that  *)
(* starts with a create.  StatusSpec: the status strategy on the streams a *)
(* status writer may find.  DetectorSpec: tagRefChanged on its own.        *)
(***************************************************************************)
EXTENDS Integers, Sequences, FiniteSets, TLC

\* ------------------------------------------------------------------ bounds

\* Largest generation a caller submits on a stream or on a spec tag.
MaxGen == 2

\* Number of operations applied to the lineage.
MaxOps == 2

\* ------------------------------------------------------------ basic values

Tags == {"a", "b"}

\* The stream of the lineage.
StreamNamespace == "ns1"
StreamName == <<"s">>

OtherNamespace == "ns2"

Nil == <<>>
Ptr(v) == <<v>>
IsNil(p) == p = <<>>
Deref(p) == p[1]

\* kapi.ObjectReference{Kind, Name, Namespace}
ObjectReference(kind, name, namespace) ==
    [kind |-> kind, name |-> name, namespace |-> namespace]

\* api.TagReference{From, Generation, Reference}
TagReference(from, gen, reference) ==
    [from |-> from, gen |-> gen, reference |-> reference]

\* api.TagEvent{Created, DockerImageReference, Image, Generation}
TagEvent(created, ref, image, gen) ==
    [created |-> created, ref |-> ref, image |-> image, gen |-> gen]

\* Go map read of a key that may be absent: the zero TagEventList.
Items(tags, tag) == IF tag \in DOMAIN tags THEN tags[tag] ELSE <<>>

\* Go map write m[k] = v.
MapSet(m, k, v) == [x \in (DOMAIN m) \cup {k} |-> IF x = k THEN v ELSE m[x]]

EmptyMap == [x \in {} |-> <<>>]

\* ------------------------------------------------------- pure functions

\* strings.Split over a token sequence: the parts between the separators.
RECURSIVE Split(_, _)
Split(s, sep) ==
    IF s = <<>> THEN << <<>> >>
    ELSE LET rest == Split(Tail(s), sep) IN
         IF Head(s) = sep
         THEN << <<>> >> \o rest
         ELSE << <<Head(s)>> \o Head(rest) >> \o Tail(rest)

\* parseFromReference: (stream name, tag or id, err).
parseFromReference(stream, from) ==
    LET splitChar == CASE from.kind = "ImageStreamTag" -> ":"
                       [] from.kind = "ImageStreamImage" -> "@"
                       [] OTHER -> ""
        parts == Split(from.name, splitChar)
    IN  IF from.kind \notin {"ImageStreamTag", "ImageStreamImage"}
        THEN [ok |-> FALSE, stream |-> <<>>, tagOrID |-> <<>>]
        ELSE IF Len(parts) = 1
        THEN [ok |-> TRUE, stream |-> stream.name, tagOrID |-> from.name]
        ELSE IF Len(parts) = 2
        THEN [ok |-> TRUE, stream |-> parts[1], tagOrID |-> parts[2]]
        ELSE [ok |-> FALSE, stream |-> <<>>, tagOrID |-> <<>>]

\* tagRefGenerationChanged flagging any two different generations.
tagRefGenerationChanged_AnyDifference(old, next) ==
    ~IsNil(old.gen) /\ ~IsNil(next.gen) /\ Deref(old.gen) # Deref(next.gen)

\* tagRefGenerationChanged: both generations set, different, and the new one 0.
tagRefGenerationChanged(old, next) ==
    IF ~IsNil(old.gen) /\ ~IsNil(next.gen)
    THEN IF Deref(old.gen) = Deref(next.gen) THEN FALSE
         ELSE IF Deref(next.gen) = 0 THEN TRUE
         ELSE FALSE
    ELSE FALSE

\* tagRefChanged comparing the namespaces as written.
tagRefChanged_NoNamespaceDefault(old, next, streamNamespace) ==
    IF IsNil(next.from) THEN FALSE
    ELSE IF Deref(next.from).kind = "" /\ Deref(next.from).name = <<>> THEN FALSE
    ELSE LET oldFrom == IF IsNil(old.from) THEN ObjectReference("", <<>>, "")
                        ELSE Deref(old.from)
         IN  IF oldFrom.namespace # Deref(next.from).namespace THEN TRUE
             ELSE IF oldFrom.name # Deref(next.from).name THEN TRUE
             ELSE tagRefGenerationChanged(old, next)

\* tagRefChanged: whether the tag ref changed between two spec updates.
tagRefChanged(old, next, streamNamespace) ==
    IF IsNil(next.from) THEN FALSE
    ELSE IF Deref(next.from).kind = "" /\ Deref(next.from).name = <<>> THEN FALSE
    ELSE LET oldFrom == IF IsNil(old.from) THEN ObjectReference("", <<>>, "")
                        ELSE Deref(old.from)
             oldNamespace == IF oldFrom.namespace = "" THEN streamNamespace
                             ELSE oldFrom.namespace
             nextNamespace == IF Deref(next.from).namespace = "" THEN streamNamespace
                              ELSE Deref(next.from).namespace
         IN  IF oldNamespace # nextNamespace THEN TRUE
             ELSE IF oldFrom.name # Deref(next.from).name THEN TRUE
             ELSE tagRefGenerationChanged(old, next)

\* tagEventChanged
tagEventChanged(old, next) ==
    old.image # next.image \/ old.ref # next.ref \/ old.gen > next.gen

\* ------------------------------------------------------------ the stream

\* api.ImageStream: ObjectMeta (namespace, name, generation, creation
\* timestamp), Spec (tags, dockerImageRepository) and Status (tags,
\* dockerImageRepository).
ImageStream(namespace, name, generation, ctime, specTags, specRepo, statusTags, statusRepo) ==
    [namespace |-> namespace, name |-> name, generation |-> generation,
     ctime |-> ctime,
     spec |-> [tags |-> specTags, repo |-> specRepo],
     status |-> [tags |-> statusTags, repo |-> statusRepo]]

\* Strategy.dockerImageRepository: the stream (its empty namespace defaulted
\* when a default registry exists) and the repository string.
dockerImageRepository(registry, stream) ==
    IF IsNil(registry)
    THEN [stream |-> stream, repo |-> stream.spec.repo]
    ELSE LET ns == IF stream.namespace = "" THEN "default" ELSE stream.namespace
         IN  [stream |-> [stream EXCEPT !.namespace = ns],
              repo |-> <<Deref(registry), "/", ns, "/">> \o stream.name]

\* The loop of PrepareForCreate: every spec tag points at stream.Generation.
StampAllSpecTags(stream) ==
    [stream EXCEPT !.spec.tags =
        [t \in DOMAIN stream.spec.tags |->
            [stream.spec.tags[t] EXCEPT !.gen = Ptr(stream.generation)]]]

\* PrepareForCreate stamping only the spec tags that carry no generation.
PrepareForCreate_KeepCallerGenerations(registry, obj) ==
    LET d == dockerImageRepository(registry, obj)
        s1 == [d.stream EXCEPT !.status = [tags |-> EmptyMap, repo |-> d.repo]]
        s2 == [s1 EXCEPT !.generation = 1]
    IN  [s2 EXCEPT !.spec.tags =
            [t \in DOMAIN s2.spec.tags |->
                IF IsNil(s2.spec.tags[t].gen)
                THEN [s2.spec.tags[t] EXCEPT !.gen = Ptr(1)]
                ELSE s2.spec.tags[t]]]

\* Strategy.PrepareForCreate
PrepareForCreate(registry, obj) ==
    LET d == dockerImageRepository(registry, obj)
        s1 == [d.stream EXCEPT !.status = [tags |-> EmptyMap, repo |-> d.repo]]
        s2 == [s1 EXCEPT !.generation = 1]
    IN  StampAllSpecTags(s2)

\* InternalStrategy.PrepareForCreate
InternalPrepareForCreate(registry, obj) ==
    LET d == dockerImageRepository(registry, obj)
        s1 == [d.stream EXCEPT !.status.repo = d.repo]
        s2 == [s1 EXCEPT !.generation = 1]
    IN  StampAllSpecTags(s2)

\* updateSpecTagGenerationsForUpdate keeping what the caller submitted.
updateSpecTagGenerationsForUpdate_NoPin(stream, oldStream) == stream

\* updateSpecTagGenerationsForUpdate: a spec tag generation other than an
\* explicit 0 is replaced by the old spec tag's generation, when there is
\* an old spec tag.
updateSpecTagGenerationsForUpdate(stream, oldStream) ==
    [stream EXCEPT !.spec.tags =
        [t \in DOMAIN stream.spec.tags |->
            LET ref == stream.spec.tags[t] IN
            IF ~IsNil(ref.gen) /\ Deref(ref.gen) = 0 THEN ref
            ELSE IF t \in DOMAIN oldStream.spec.tags
            THEN [ref EXCEPT !.gen = oldStream.spec.tags[t].gen]
            ELSE ref]]

\* ensureSpecTagGenerationsAreSet stamping only the missing generations.
ensureSpecTagGenerationsAreSet_KeepZero(stream, oldStream) ==
    LET oldTags == IF ~IsNil(oldStream) THEN Deref(oldStream).spec.tags ELSE EmptyMap
    IN  [stream EXCEPT !.spec.tags =
            [t \in DOMAIN stream.spec.tags |->
                LET ref == stream.spec.tags[t]
                    ref1 == IF t \notin DOMAIN oldTags
                               \/ tagRefChanged(oldTags[t], ref, stream.namespace)
                            THEN [ref EXCEPT !.gen = Nil]
                            ELSE ref
                IN  IF ~IsNil(ref1.gen) THEN ref
                    ELSE [ref1 EXCEPT !.gen = Ptr(stream.generation)]]]

\* ensureSpecTagGenerationsAreSet: a spec tag that is new, changed, without
\* generation or at generation 0 gets the stream's generation.  oldStream is a
\* pointer.
ensureSpecTagGenerationsAreSet(stream, oldStream) ==
    LET oldTags == IF ~IsNil(oldStream) THEN Deref(oldStream).spec.tags ELSE EmptyMap
    IN  [stream EXCEPT !.spec.tags =
            [t \in DOMAIN stream.spec.tags |->
                LET ref == stream.spec.tags[t]
                    ref1 == IF t \notin DOMAIN oldTags
                               \/ tagRefChanged(oldTags[t], ref, stream.namespace)
                            THEN [ref EXCEPT !.gen = Nil]
                            ELSE ref
                IN  IF ~IsNil(ref1.gen) /\ Deref(ref1.gen) # 0 THEN ref
                    ELSE [ref1 EXCEPT !.gen = Ptr(stream.generation)]]]

\* kapi.Semantic.DeepEqual on two ImageStreamSpec values: pointers are
\* compared by pointee, maps by keys and values.
SpecDeepEqual(a, b) == a = b

\* prepareForUpdate without the increment of a generation still at zero.
prepareForUpdate_NoZeroBump(registry, obj, old, resetStatus) ==
    LET s1 == [obj EXCEPT !.generation = old.generation]
        s2 == IF resetStatus THEN [s1 EXCEPT !.status = old.status] ELSE s1
        d  == dockerImageRepository(registry, s2)
        s3 == [d.stream EXCEPT !.status.repo = d.repo]
        s4 == updateSpecTagGenerationsForUpdate(s3, old)
        s5 == IF ~SpecDeepEqual(old.spec, s4.spec)
              THEN [s4 EXCEPT !.generation = old.generation + 1]
              ELSE s4
    IN  ensureSpecTagGenerationsAreSet(s5, Ptr(old))

\* Strategy.prepareForUpdate
prepareForUpdate(registry, obj, old, resetStatus) ==
    LET s1 == [obj EXCEPT !.generation = old.generation]
        s2 == IF resetStatus THEN [s1 EXCEPT !.status = old.status] ELSE s1
        d  == dockerImageRepository(registry, s2)
        s3 == [d.stream EXCEPT !.status.repo = d.repo]
        s4 == updateSpecTagGenerationsForUpdate(s3, old)
        s5 == IF ~SpecDeepEqual(old.spec, s4.spec) \/ s4.generation = 0
              THEN [s4 EXCEPT !.generation = old.generation + 1]
              ELSE s4
    IN  ensureSpecTagGenerationsAreSet(s5, Ptr(old))

\* Strategy.PrepareForUpdate
PrepareForUpdate(registry, obj, old) == prepareForUpdate(registry, obj, old, TRUE)

\* InternalStrategy.PrepareForUpdate restoring the old status.
InternalPrepareForUpdate_ResetStatus(registry, obj, old) ==
    prepareForUpdate(registry, obj, old, TRUE)

\* InternalStrategy.PrepareForUpdate
InternalPrepareForUpdate(registry, obj, old) == prepareForUpdate(registry, obj, old, FALSE)

\* updateObservedGenerationForStatusUpdate stamping every head at generation 0
\* with the stream's generation.
updateObservedGenerationForStatusUpdate_StreamOnly(stream, oldStream) ==
    [stream EXCEPT !.status.tags =
        [t \in DOMAIN stream.status.tags |->
            LET newer == stream.status.tags[t]
            IN  IF Len(newer) = 0 \/ newer[1].gen # 0 THEN newer
                ELSE [newer EXCEPT ![1].gen = stream.generation]]]

\* updateObservedGenerationForStatusUpdate: a head event at generation 0 is
\* stamped.
updateObservedGenerationForStatusUpdate(stream, oldStream) ==
    [stream EXCEPT !.status.tags =
        [t \in DOMAIN stream.status.tags |->
            LET newer == stream.status.tags[t]
                older == Items(oldStream.status.tags, t)
            IN  IF Len(newer) = 0 \/ newer[1].gen # 0 THEN newer
                ELSE IF Len(older) = 0 \/ ~tagEventChanged(older[1], newer[1])
                THEN [newer EXCEPT ![1].gen = stream.generation]
                ELSE IF t \notin DOMAIN stream.spec.tags
                        \/ IsNil(stream.spec.tags[t].gen)
                THEN [newer EXCEPT ![1].gen = stream.generation]
                ELSE [newer EXCEPT ![1].gen = Deref(stream.spec.tags[t].gen)]]]

\* StatusStrategy.PrepareForUpdate restoring the spec tags only.
StatusPrepareForUpdate_TagsOnly(obj, old) ==
    LET s1 == [obj EXCEPT !.spec.tags = old.spec.tags]
    IN  updateObservedGenerationForStatusUpdate(s1, old)

\* StatusStrategy.PrepareForUpdate
StatusPrepareForUpdate(obj, old) ==
    LET s1 == [obj EXCEPT !.spec.tags = old.spec.tags]
        s2 == [s1 EXCEPT !.spec.repo = old.spec.repo]
    IN  updateObservedGenerationForStatusUpdate(s2, old)

\* ---------------------------------------------------------- collaborators

\* Answers of the authorization service to one subject access review.
AuthAnswers == {"allowed", "denied", "error", "empty"}

\* Answers of the image stream getter: the stream with the referenced tag
\* resolved, the stream without any history, not found, another error.
GetAnswers == {"found", "foundEmpty", "notFound", "error"}

\* The image and the event another stream holds under its tag "t" (its
\* generation is one no stream of the lineage reaches).
OtherEvent == TagEvent("t0", <<"reg", "/", "o", "@", "i1">>, "i1", MaxGen + 1)

\* ImageStreamGetter.Get: the stream found under an answer.
GetStream(namespace, name, answer) ==
    ImageStream(namespace, name, MaxGen + 1, "t0", EmptyMap, <<>>,
                IF answer = "found" THEN [t \in {"t"} |-> <<OtherEvent>>] ELSE EmptyMap,
                <<>>)

\* The map key a tag name (a token sequence) denotes.
TagKey(name) == IF Len(name) = 1 THEN name[1] ELSE ""

\* api.LatestTaggedImage: the head of the tag's history, nil without history.
LatestTaggedImage(stream, tag) ==
    LET items == Items(stream.status.tags, TagKey(tag))
    IN  IF Len(items) = 0 THEN Nil ELSE Ptr(items[1])

\* The events of a stream's histories that hold the image.
EventsOfImage(stream, id) ==
    {e \in UNION {{stream.status.tags[t][i] : i \in 1..Len(stream.status.tags[t])}
                    : t \in DOMAIN stream.status.tags} : e.image = TagKey(id)}

\* api.ResolveImageID: the event of the image in the stream's history; nil
\* when there is none, an error for a malformed (empty) id.
ResolveImageID(stream, id) ==
    IF id = <<>> THEN [err |-> TRUE, event |-> Nil]
    ELSE IF EventsOfImage(stream, id) = {} THEN [err |-> FALSE, event |-> Nil]
    ELSE [err |-> FALSE,
          event |-> Ptr(CHOOSE e \in EventsOfImage(stream, id) : TRUE)]

\* api.AddTagEventToImageStream: the event becomes the head of the tag's history.
AddTagEventToImageStream(stream, tag, event) ==
    [stream EXCEPT !.status.tags =
        MapSet(stream.status.tags, tag, <<event>> \o Items(stream.status.tags, tag))]

\* api.UpdateChangedTrackingTags
UpdateChangedTrackingTags(stream, old) == stream

\* ------------------------------------------------------ the resolve pass

FieldError(type, tag, field) == [type |-> type, tag |-> tag, field |-> field]

\* tagReferenceToTagEvent returning the event with the generation it has.
tagReferenceToTagEvent_KeepInherited(stream, tagRef, tagOrID) ==
    LET from == Deref(tagRef.from)
    IN  CASE from.kind = "DockerImage" ->
                [err |-> FALSE, event |-> Ptr(TagEvent("now", from.name, "", 0))]
          [] from.kind = "ImageStreamImage" -> ResolveImageID(stream, tagOrID)
          [] from.kind = "ImageStreamTag" ->
                [err |-> FALSE, event |-> LatestTaggedImage(stream, tagOrID)]
          [] OTHER -> [err |-> TRUE, event |-> Nil]

\* tagReferenceToTagEvent: (event, err).
tagReferenceToTagEvent(stream, tagRef, tagOrID) ==
    LET from == Deref(tagRef.from)
        r == CASE from.kind = "DockerImage" ->
                    [err |-> FALSE, event |-> Ptr(TagEvent("now", from.name, "", 0))]
               [] from.kind = "ImageStreamImage" -> ResolveImageID(stream, tagOrID)
               [] from.kind = "ImageStreamTag" ->
                    [err |-> FALSE, event |-> LatestTaggedImage(stream, tagOrID)]
               [] OTHER -> [err |-> TRUE, event |-> Nil]
    IN  IF r.err THEN [err |-> TRUE, event |-> Nil]
        ELSE IF ~IsNil(r.event) /\ ~IsNil(tagRef.gen)
        THEN [err |-> FALSE, event |-> Ptr([Deref(r.event) EXCEPT !.gen = Deref(tagRef.gen)])]
        ELSE r

\* tagsChangedTag reporting a reference whose target does not exist yet.
tagsChangedTag_AbsentIsError(oldTags, acc, tag, getAnswer) ==
    LET stream == acc.stream
        tagRef0 == stream.spec.tags[tag]
        tagRef == [tagRef0 EXCEPT !.gen = Ptr(stream.generation)]
        from == Deref(tagRef.from)
        parsed == parseFromReference(stream, from)
        streamRefNamespace == IF from.namespace = "" THEN stream.namespace
                              ELSE from.namespace
        remote == streamRefNamespace # stream.namespace \/ parsed.stream # stream.name
        lookups1 == IF remote
                    THEN Append(acc.lookups,
                                [tag |-> tag, namespace |-> streamRefNamespace,
                                 name |-> parsed.stream, answer |-> getAnswer])
                    ELSE acc.lookups
        streamRef == IF remote THEN GetStream(streamRefNamespace, parsed.stream, getAnswer)
                     ELSE stream
        resolved == tagReferenceToTagEvent(streamRef, tagRef, parsed.tagOrID)
        direct == tagReferenceToTagEvent(stream, tagRef, <<>>)
        added(ev) == AddTagEventToImageStream(
                        [stream EXCEPT !.spec.tags = MapSet(stream.spec.tags, tag, tagRef)],
                        tag, ev)
    IN  IF tag \in DOMAIN oldTags /\ ~tagRefChanged(oldTags[tag], tagRef0, stream.namespace)
        THEN acc
        ELSE IF IsNil(tagRef0.from) THEN acc
        ELSE IF from.kind = "DockerImage" /\ Len(from.name) > 0
        THEN IF tagRef.reference
             THEN IF direct.err
                  THEN [acc EXCEPT !.errs = Append(@, FieldError("FieldInvalid", tag, "from"))]
                  ELSE [acc EXCEPT !.stream = added(Deref(direct.event))]
             ELSE acc
        ELSE IF ~parsed.ok
        THEN [acc EXCEPT !.errs = Append(@, FieldError("FieldInvalid", tag, "from.name"))]
        ELSE IF remote /\ getAnswer = "notFound"
        THEN [acc EXCEPT !.errs = Append(@, FieldError("FieldNotFound", tag, "from.name")),
                         !.lookups = lookups1]
        ELSE IF remote /\ getAnswer = "error"
        THEN [acc EXCEPT !.errs = Append(@, FieldError("FieldInvalid", tag, "from.name")),
                         !.lookups = lookups1]
        ELSE IF resolved.err
        THEN [acc EXCEPT !.errs = Append(@, FieldError("FieldInvalid", tag, "from.name")),
                         !.lookups = lookups1]
        ELSE IF IsNil(resolved.event)
        THEN [acc EXCEPT !.errs = Append(@, FieldError("FieldNotFound", tag, "from.name")),
                         !.lookups = lookups1]
        ELSE [acc EXCEPT !.stream = added(Deref(resolved.event)), !.lookups = lookups1]

\* One iteration of the loop of tagsChanged, on the tag `tag`.  acc holds the
\* stream as mutated so far, the errors and the lookups made so far.
tagsChangedTag(oldTags, acc, tag, getAnswer) ==
    LET stream == acc.stream
        tagRef0 == stream.spec.tags[tag]
        tagRef == [tagRef0 EXCEPT !.gen = Ptr(stream.generation)]
        from == Deref(tagRef.from)
        parsed == parseFromReference(stream, from)
        streamRefNamespace == IF from.namespace = "" THEN stream.namespace
                              ELSE from.namespace
        remote == streamRefNamespace # stream.namespace \/ parsed.stream # stream.name
        lookups1 == IF remote
                    THEN Append(acc.lookups,
                                [tag |-> tag, namespace |-> streamRefNamespace,
                                 name |-> parsed.stream, answer |-> getAnswer])
                    ELSE acc.lookups
        streamRef == IF remote THEN GetStream(streamRefNamespace, parsed.stream, getAnswer)
                     ELSE stream
        resolved == tagReferenceToTagEvent(streamRef, tagRef, parsed.tagOrID)
        direct == tagReferenceToTagEvent(stream, tagRef, <<>>)
        added(ev) == AddTagEventToImageStream(
                        [stream EXCEPT !.spec.tags = MapSet(stream.spec.tags, tag, tagRef)],
                        tag, ev)
    IN  IF tag \in DOMAIN oldTags /\ ~tagRefChanged(oldTags[tag], tagRef0, stream.namespace)
        THEN acc
        ELSE IF IsNil(tagRef0.from) THEN acc
        ELSE IF from.kind = "DockerImage" /\ Len(from.name) > 0
        THEN IF tagRef.reference
             THEN IF direct.err
                  THEN [acc EXCEPT !.errs = Append(@, FieldError("FieldInvalid", tag, "from"))]
                  ELSE [acc EXCEPT !.stream = added(Deref(direct.event))]
             ELSE acc
        ELSE IF ~parsed.ok
        THEN [acc EXCEPT !.errs = Append(@, FieldError("FieldInvalid", tag, "from.name"))]
        ELSE IF remote /\ getAnswer = "notFound"
        THEN [acc EXCEPT !.errs = Append(@, FieldError("FieldNotFound", tag, "from.name")),
                         !.lookups = lookups1]
        ELSE IF remote /\ getAnswer = "error"
        THEN [acc EXCEPT !.errs = Append(@, FieldError("FieldInvalid", tag, "from.name")),
                         !.lookups = lookups1]
        ELSE IF resolved.err
        THEN [acc EXCEPT !.errs = Append(@, FieldError("FieldInvalid", tag, "from.name")),
                         !.lookups = lookups1]
        ELSE IF IsNil(resolved.event)
        THEN [acc EXCEPT !.lookups = lookups1]
        ELSE [acc EXCEPT !.stream = added(Deref(resolved.event)), !.lookups = lookups1]

\* The loop of tagsChanged over the spec tags in the order the map yields them.
RECURSIVE tagsChangedLoop(_, _, _, _)
tagsChangedLoop(oldTags, acc, order, getAnswer) ==
    IF order = <<>> THEN acc
    ELSE tagsChangedLoop(oldTags, tagsChangedTag(oldTags, acc, Head(order), getAnswer),
                         Tail(order), getAnswer)

\* The last loop of tagsChanged ("use a consistent timestamp on creation"):
\* it assigns to the range variable, a copy of the event, and stores the
\* unchanged list back.
ConsistentTimestamp(old, stream) ==
    IF IsNil(old) /\ stream.ctime # "zero"
    THEN [stream EXCEPT !.status.tags =
            [t \in DOMAIN stream.status.tags |-> stream.status.tags[t]]]
    ELSE stream

\* Strategy.tagsChanged: the stream with its status updated, the errors, and
\* the lookups made.  old is a pointer.
tagsChanged(old, stream, order, getAnswer) ==
    LET oldTags == IF ~IsNil(old) THEN Deref(old).spec.tags ELSE EmptyMap
        r == tagsChangedLoop(oldTags, [stream |-> stream, errs |-> <<>>, lookups |-> <<>>],
                             order, getAnswer)
        s1 == UpdateChangedTrackingTags(r.stream, old)
    IN  [r EXCEPT !.stream = ConsistentTimestamp(old, s1)]

\* ------------------------------------------------------ the tag verifier

\* VerifyTag reviewing the unchanged references too.
VerifyTag_NoChangeSkip(oldTags, stream, acc, tag, authAnswer) ==
    LET tagRef == stream.spec.tags[tag]
        from == Deref(tagRef.from)
        parsed == parseFromReference(stream, from)
        review == [tag |-> tag, verb |-> "get", resource |-> "imagestreams",
                   resourceName |-> parsed.stream, namespace |-> from.namespace,
                   answer |-> authAnswer]
    IN  IF IsNil(tagRef.from) THEN acc
        ELSE IF from.namespace = "" THEN acc
        ELSE IF stream.namespace = from.namespace THEN acc
        ELSE IF ~parsed.ok
        THEN [acc EXCEPT !.errs = Append(@, FieldError("FieldInvalid", tag, "from.name"))]
        ELSE IF authAnswer \in {"error", "empty", "denied"}
        THEN [errs |-> Append(acc.errs, FieldError("FieldForbidden", tag, "from")),
              checks |-> Append(acc.checks, review)]
        ELSE [acc EXCEPT !.checks = Append(@, review)]

\* VerifyTag taking an empty response for an allowed one.
VerifyTag_EmptyAllowed(oldTags, stream, acc, tag, authAnswer) ==
    LET tagRef == stream.spec.tags[tag]
        from == Deref(tagRef.from)
        parsed == parseFromReference(stream, from)
        review == [tag |-> tag, verb |-> "get", resource |-> "imagestreams",
                   resourceName |-> parsed.stream, namespace |-> from.namespace,
                   answer |-> authAnswer]
    IN  IF IsNil(tagRef.from) THEN acc
        ELSE IF from.namespace = "" THEN acc
        ELSE IF stream.namespace = from.namespace THEN acc
        ELSE IF tag \in DOMAIN oldTags /\ ~tagRefChanged(oldTags[tag], tagRef, stream.namespace)
        THEN acc
        ELSE IF ~parsed.ok
        THEN [acc EXCEPT !.errs = Append(@, FieldError("FieldInvalid", tag, "from.name"))]
        ELSE IF authAnswer \in {"error", "denied"}
        THEN [errs |-> Append(acc.errs, FieldError("FieldForbidden", tag, "from")),
              checks |-> Append(acc.checks, review)]
        ELSE [acc EXCEPT !.checks = Append(@, review)]

\* One iteration of the loop of TagVerifier.Verify.  acc holds the errors and
\* the subject access reviews issued so far.
VerifyTag(oldTags, stream, acc, tag, authAnswer) ==
    LET tagRef == stream.spec.tags[tag]
        from == Deref(tagRef.from)
        parsed == parseFromReference(stream, from)
        review == [tag |-> tag, verb |-> "get", resource |-> "imagestreams",
                   resourceName |-> parsed.stream, namespace |-> from.namespace,
                   answer |-> authAnswer]
    IN  IF IsNil(tagRef.from) THEN acc
        ELSE IF from.namespace = "" THEN acc
        ELSE IF stream.namespace = from.namespace THEN acc
        ELSE IF tag \in DOMAIN oldTags /\ ~tagRefChanged(oldTags[tag], tagRef, stream.namespace)
        THEN acc
        ELSE IF ~parsed.ok
        THEN [acc EXCEPT !.errs = Append(@, FieldError("FieldInvalid", tag, "from.name"))]
        ELSE IF authAnswer \in {"error", "empty", "denied"}
        THEN [errs |-> Append(acc.errs, FieldError("FieldForbidden", tag, "from")),
              checks |-> Append(acc.checks, review)]
        ELSE [acc EXCEPT !.checks = Append(@, review)]

RECURSIVE VerifyLoop(_, _, _, _, _)
VerifyLoop(oldTags, stream, acc, order, authAnswer) ==
    IF order = <<>> THEN acc
    ELSE VerifyLoop(oldTags, stream, VerifyTag(oldTags, stream, acc, Head(order), authAnswer),
                    Tail(order), authAnswer)

\* TagVerifier.Verify: the errors and the reviews issued.  old is a pointer.
Verify(old, stream, order, authAnswer) ==
    LET oldTags == IF ~IsNil(old) THEN Deref(old).spec.tags ELSE EmptyMap
    IN  VerifyLoop(oldTags, stream, [errs |-> <<>>, checks |-> <<>>], order, authAnswer)

\* ------------------------------------------------------------- validation

\* validation.ValidateImageStream, ValidateImageStreamUpdate and
\* ValidateImageStreamStatusUpdate: the field validation layer, outside this
\* file; the streams of the model pass it.
FieldValidation(stream) == <<>>

\* The body shared by Strategy.Validate (old = nil) and Strategy.ValidateUpdate:
\* the stream as mutated, the errors, the reviews and the lookups.
ValidateWith(old, stream, env) ==
    IF ~env.hasUser
    THEN [stream |-> stream, errs |-> <<FieldError("Forbidden", "", "")>>,
          checks |-> <<>>, lookups |-> <<>>]
    ELSE LET v == Verify(old, stream, env.order, env.auth)
             c == tagsChanged(old, stream, env.order, env.get)
         IN  [stream |-> c.stream,
              errs |-> v.errs \o c.errs \o FieldValidation(c.stream),
              checks |-> v.checks, lookups |-> c.lookups]

\* Strategy.Validate
Validate(stream, env) == ValidateWith(Nil, stream, env)

\* Strategy.ValidateUpdate
ValidateUpdate(stream, old, env) == ValidateWith(Ptr(old), stream, env)

\* StatusStrategy.ValidateUpdate
StatusValidateUpdate(stream, old) == FieldValidation(stream)

\* ------------------------------------------------------------ the inputs

RECURSIVE Perms(_)
\* The orders in which a Go map range may yield the keys of S.
Perms(S) ==
    IF S = {} THEN {<<>>}
    ELSE UNION {{<<x>> \o p : p \in Perms(S \ {x})} : x \in S}

FromTagB == Ptr(ObjectReference("ImageStreamTag", <<"b">>, ""))
FromTagBNs == Ptr(ObjectReference("ImageStreamTag", <<"b">>, StreamNamespace))
FromOther == Ptr(ObjectReference("ImageStreamTag", <<"o", ":", "t">>, OtherNamespace))
FromMalformedOther ==
    Ptr(ObjectReference("ImageStreamTag", <<"o", ":", "t", ":", "x">>, OtherNamespace))
FromOtherImage ==
    Ptr(ObjectReference("ImageStreamImage", <<"o", "@", "i1">>, OtherNamespace))
FromDocker == Ptr(ObjectReference("DockerImage", <<"img">>, ""))

\* The generations a caller may submit on a spec tag: unset, 0, or a value.
CandGens == {Nil} \cup {Ptr(g) : g \in 0..MaxGen}

\* The tag references a caller may submit under each tag.
CandRefs(tag) ==
    IF tag = "a"
    THEN {TagReference(FromTagB, g, FALSE) : g \in CandGens}
         \cup {TagReference(FromOther, g, FALSE) : g \in {Nil, Ptr(0)}}
         \cup {TagReference(f, Nil, FALSE) : f \in {Nil, FromTagBNs, FromMalformedOther}}
    ELSE {TagReference(FromDocker, Nil, TRUE), TagReference(FromOtherImage, Nil, FALSE)}

\* The spec.tags maps a caller may submit over the tags of tagSet.
CandSpecTags(tagSet) ==
    UNION {{[t \in D |-> IF t = "a" THEN ra ELSE rb] :
                ra \in CandRefs("a"), rb \in CandRefs("b")} : D \in SUBSET tagSet}

\* An event a status writer (an importer) submits as the new head of a tag.
ImportedEvent(gen) == TagEvent("t1", <<"reg", "/", "s", "@", "i2">>, "i2", gen)

\* The status.tags maps a caller may submit, given the stored ones: the stored
\* histories, or one of them with a new head.
CandStatusTags(tags, tagSet, gens) ==
    {tags} \cup {MapSet(tags, t, <<ImportedEvent(g)>> \o Items(tags, t)) :
                    t \in tagSet, g \in gens}

\* Whether a call on the stream may ask the authorization service, or the
\* image stream getter: a from names another namespace.
NamesOtherNamespace(stream) ==
    \E t \in DOMAIN stream.spec.tags :
        /\ ~IsNil(stream.spec.tags[t].from)
        /\ Deref(stream.spec.tags[t].from).namespace = OtherNamespace

\* The collaborators' answers and the map order of one call on `stream`: the
\* answers vary when the stream has a reference that may be asked about.
Answers(stream) ==
    IF NamesOtherNamespace(stream)
    THEN {<<a, "found">> : a \in AuthAnswers} \cup {<<"allowed", g>> : g \in GetAnswers}
         \cup {<<"denied", "notFound">>}
    ELSE {<<"allowed", "found">>}

Envs(stream) ==
    {[hasUser |-> TRUE, auth |-> a[1], get |-> a[2], order |-> o] :
        a \in Answers(stream), o \in Perms(DOMAIN stream.spec.tags)}
    \cup
    {[hasUser |-> FALSE, auth |-> "allowed", get |-> "found", order |-> <<>>]}

\* A stream stored before generations existed: generation 0, no spec tag
\* generation, events at generation 0.
LegacyStream ==
    ImageStream(StreamNamespace, StreamName, 0, "t0",
                [t \in Tags |-> IF t = "a" THEN TagReference(FromTagB, Nil, FALSE)
                                ELSE TagReference(FromDocker, Nil, TRUE)],
                <<>>,
                [t \in Tags |-> <<TagEvent("t0", <<"img">>, "", 0)>>],
                <<>>)

\* --------------------------------------------------------- the state

VARIABLES
    stored,     \* the stream in storage: a pointer, nil before its creation
    registry,   \* the default registry the strategy was built with: a pointer
    ops,        \* the number of operations applied so far
    op,         \* the operation in progress, "idle" between operations
    old,        \* the stream the operation read from storage: a pointer
    cand,       \* the candidate the caller submitted: a pointer
    prepared,   \* the candidate after the operation's preparation: a pointer
    obj,        \* the candidate after the operation's validation: a pointer
    errs,       \* the errors the operation returned
    checks,     \* the subject access reviews the operation issued
    lookups,    \* the image stream lookups the operation made
    call        \* a call of the change detector on its own: a pointer

vars == <<stored, registry, ops, op, old, cand, prepared, obj, errs, checks,
          lookups, call>>

\* The storage layer: the stream is persisted when no error is returned.
Persist(stream, es) == IF es = <<>> THEN Ptr(stream) ELSE stored

Init ==
    /\ stored \in {Nil, Ptr(LegacyStream)}
    /\ registry \in {Nil, Ptr("reg")}
    /\ ops = 0
    /\ op = "idle"
    /\ old = Nil
    /\ cand = Nil
    /\ prepared = Nil
    /\ obj = Nil
    /\ errs = <<>>
    /\ checks = <<>>
    /\ lookups = <<>>
    /\ call = Nil

\* The candidates a caller may submit.
Candidates(generations, tagSet, statusTagsSet) ==
    {ImageStream(StreamNamespace, StreamName, g, "tc", st, <<>>, tt, <<>>) :
        g \in generations, st \in CandSpecTags(tagSet), tt \in statusTagsSet}

\* The outcome of an operation: what it read, was given, made and returned.
Outcome(name, c, p, v) ==
    /\ ops' = ops + 1
    /\ op' = name
    /\ old' = stored
    /\ cand' = Ptr(c)
    /\ prepared' = Ptr(p)
    /\ obj' = Ptr(v.stream)
    /\ errs' = v.errs
    /\ checks' = v.checks
    /\ lookups' = v.lookups
    /\ stored' = Persist(v.stream, v.errs)
    /\ UNCHANGED <<registry, call>>

\* The outcome of an operation that only prepares and validates fields.
Prepared(stream, es) == [stream |-> stream, errs |-> es, checks |-> <<>>, lookups |-> <<>>]

\* Create through the user strategy: PrepareForCreate, Validate, storage.
Create ==
    /\ op = "idle" /\ ops < MaxOps
    /\ stored = Nil
    /\ \E c \in Candidates({0, MaxGen}, Tags, {EmptyMap}) :
         LET p == PrepareForCreate(registry, c) IN
         \E env \in Envs(p) : Outcome("create", c, p, Validate(p, env))

\* Create through the internal strategy: its PrepareForCreate, storage.
InternalCreate ==
    /\ op = "idle" /\ ops < MaxOps
    /\ stored = Nil
    /\ \E c \in Candidates({0, MaxGen}, {"a"}, CandStatusTags(EmptyMap, {"a"}, {0})) :
         LET p == InternalPrepareForCreate(registry, c) IN
         Outcome("internalCreate", c, p, Prepared(p, <<>>))

\* Update through the user strategy: PrepareForUpdate, ValidateUpdate, storage.
Update ==
    /\ op = "idle" /\ ops < MaxOps
    /\ stored # Nil
    /\ \E c \in Candidates({MaxGen}, Tags, {EmptyMap}) :
         LET p == PrepareForUpdate(registry, c, Deref(stored)) IN
         \E env \in Envs(p) :
            Outcome("update", c, p, ValidateUpdate(p, Deref(stored), env))

\* The status tags an importer submits: the stored ones, or tag a with a new
\* head.
ImporterStatusTags(tags) == CandStatusTags(tags, {"a"}, {0, 1})

\* The stored status tags with the head of a tag submitted again at
\* generation 0 (a writer that does not know the generations).
ResubmittedStatusTags(tags) ==
    {[tags EXCEPT ![t] = [@ EXCEPT ![1].gen = 0]] :
        t \in {x \in DOMAIN tags : Len(tags[x]) > 0}}

\* A status update whose candidate is drawn from the given generations, spec
\* tags and spec repositories, with the importer's status tags and, when
\* resubmit is set, the resubmitted ones: StatusStrategy's PrepareForUpdate and
\* ValidateUpdate, then storage.
StatusUpdateWith(generations, specTagsSet, specRepos, resubmit) ==
    /\ op = "idle" /\ ops < MaxOps
    /\ stored # Nil
    /\ \E g \in generations, st \in specTagsSet, sr \in specRepos,
          tt \in ImporterStatusTags(Deref(stored).status.tags)
                 \cup (IF resubmit
                       THEN ResubmittedStatusTags(Deref(stored).status.tags)
                       ELSE {}) :
         LET c == ImageStream(StreamNamespace, StreamName, g, "tc", st, sr,
                              tt, Deref(stored).status.repo)
             p == StatusPrepareForUpdate(c, Deref(stored)) IN
         Outcome("statusUpdate", c, p, Prepared(p, StatusValidateUpdate(p, Deref(stored))))

\* Update through the status strategy: its PrepareForUpdate and ValidateUpdate;
\* the writer's candidate carries the lowest or the largest generation.
StatusUpdate ==
    StatusUpdateWith({0, MaxGen}, {EmptyMap}, {<<>>}, FALSE)

\* Update through the internal strategy: its PrepareForUpdate, storage.
InternalUpdate ==
    /\ op = "idle" /\ ops < MaxOps
    /\ stored # Nil
    /\ \E c \in Candidates({0}, {"a"}, CandStatusTags(Deref(stored).status.tags, {"a"}, {0})) :
         LET p == InternalPrepareForUpdate(registry, c, Deref(stored)) IN
         Outcome("internalUpdate", c, p, Prepared(p, <<>>))

\* The request ends: the in-memory candidate and what was returned are dropped.
Done ==
    /\ op # "idle"
    /\ op' = "idle"
    /\ old' = Nil
    /\ cand' = Nil
    /\ prepared' = Nil
    /\ obj' = Nil
    /\ errs' = <<>>
    /\ checks' = <<>>
    /\ lookups' = <<>>
    /\ UNCHANGED <<stored, registry, ops, call>>

Next ==
    \/ Create
    \/ InternalCreate
    \/ Update
    \/ StatusUpdate
    \/ InternalUpdate
    \/ Done

Spec == Init /\ [][Next]_vars

\* ------------------------------------------- the status specification

\* The head a stored history holds.
StoredHead(gen) == TagEvent("t0", <<"reg", "/", "s", "@", "i1">>, "i1", gen)

\* Streams in storage when a status writer arrives: at generation G, with or
\* without spec tag a (stamped at some generation up to G), with or without a
\* history for tag a (its head observed at some generation up to G); and the
\* stream stored before generations existed.
StatusStoredStreams ==
    {ImageStream(StreamNamespace, StreamName, G, "t0", st, <<>>, tt, <<>>) :
        G \in 1..MaxGen,
        st \in {EmptyMap} \cup {[t \in {"a"} |-> TagReference(FromTagB, Ptr(g), FALSE)] :
                                    g \in 1..MaxGen},
        tt \in {EmptyMap} \cup {[t \in {"a"} |-> <<StoredHead(g)>>] : g \in 1..MaxGen}}

\* The subset of them whose generations do not exceed the stream's.
StatusStored ==
    {s \in StatusStoredStreams :
        /\ \A t \in DOMAIN s.spec.tags : Deref(s.spec.tags[t].gen) <= s.generation
        /\ \A t \in DOMAIN s.status.tags : s.status.tags[t][1].gen <= s.generation}
    \cup {LegacyStream}

\* The spec a status writer may carry in its candidate: none, or a spec of
\* its own.
StatusCandSpecTags ==
    {EmptyMap, [t \in {"a"} |-> TagReference(FromDocker, Ptr(MaxGen), TRUE)]}

StatusInit ==
    /\ stored \in {Ptr(s) : s \in StatusStored}
    /\ registry = Nil
    /\ ops = 0
    /\ op = "idle"
    /\ old = Nil
    /\ cand = Nil
    /\ prepared = Nil
    /\ obj = Nil
    /\ errs = <<>>
    /\ checks = <<>>
    /\ lookups = <<>>
    /\ call = Nil

\* A status update by any writer: any generation, a spec and a spec
\* repository of its own or none, a new head or the old one again.
StatusUpdateAny ==
    StatusUpdateWith(0..MaxGen, StatusCandSpecTags, {<<>>, <<"other">>}, TRUE)

StatusNext ==
    \/ StatusUpdateAny
    \/ Done

StatusSpec == StatusInit /\ [][StatusNext]_vars

\* ------------------------------------------- the detector specification

\* The references the change detector is given: none, or any kind, name and
\* namespace, empty ones included.
DetectorFroms ==
    {Nil} \cup {Ptr(ObjectReference(k, n, ns)) :
                    k \in {"", "ImageStreamTag", "DockerImage"},
                    n \in {<<>>, <<"b">>, <<"c">>},
                    ns \in {"", StreamNamespace, OtherNamespace}}

\* The tag references the change detector is given.
DetectorRefs == {TagReference(f, g, FALSE) : f \in DetectorFroms, g \in CandGens}

DetectorInit ==
    /\ stored = Nil
    /\ registry = Nil
    /\ ops = 0
    /\ op = "idle"
    /\ old = Nil
    /\ cand = Nil
    /\ prepared = Nil
    /\ obj = Nil
    /\ errs = <<>>
    /\ checks = <<>>
    /\ lookups = <<>>
    /\ call = Nil

\* A call tagRefChanged(old, next, streamNamespace) and what it returns.
TagRefChangedCall ==
    /\ call = Nil
    /\ \E o \in DetectorRefs, n \in DetectorRefs :
          call' = Ptr([old |-> o, next |-> n, streamNamespace |-> StreamNamespace,
                       changed |-> tagRefChanged(o, n, StreamNamespace)])
    /\ UNCHANGED <<stored, registry, ops, op, old, cand, prepared, obj, errs,
                   checks, lookups>>

DetectorNext == TagRefChangedCall

DetectorSpec == DetectorInit /\ [][DetectorNext]_vars

\* ----------------------------------------------- the user specification

\* A lineage that starts with a create: nothing is stored yet.
UserInit ==
    /\ stored = Nil
    /\ registry \in {Nil, Ptr("reg")}
    /\ ops = 0
    /\ op = "idle"
    /\ old = Nil
    /\ cand = Nil
    /\ prepared = Nil
    /\ obj = Nil
    /\ errs = <<>>
    /\ checks = <<>>
    /\ lookups = <<>>
    /\ call = Nil

\* The operations of users and status writers.
UserNext ==
    \/ Create
    \/ Update
    \/ StatusUpdate
    \/ Done

UserSpec == UserInit /\ [][UserNext]_vars

\* ------------------------------------------------------------ the claims

\* The operation in progress ran the user strategy's validation.
UserOp == op \in {"create", "update"}

\* The operation in progress prepared a spec update.
SpecUpdateOp == op \in {"update", "internalUpdate"}

\* Validate or ValidateUpdate found no user on the context.
NoUser == errs = <<FieldError("Forbidden", "", "")>>

\* The namespace a from refers to: its own, or the stream's when it has none.
ClaimNamespace(from) == IF from.namespace = "" THEN StreamNamespace ELSE from.namespace

\* The from of newRef is set and the same as oldRef's: same name and same
\* namespace after defaulting.
ClaimFromUnchanged(oldRef, newRef) ==
    /\ ~IsNil(newRef.from) /\ ~IsNil(oldRef.from)
    /\ Deref(newRef.from).name = Deref(oldRef.from).name
    /\ ClaimNamespace(Deref(newRef.from)) = ClaimNamespace(Deref(oldRef.from))

\* The candidate's spec after generation pinning against the old spec.
ClaimPinnedSpec(c, o) ==
    [c.spec EXCEPT !.tags =
        [t \in DOMAIN c.spec.tags |->
            IF c.spec.tags[t].gen = Ptr(0) \/ t \notin DOMAIN o.spec.tags
            THEN c.spec.tags[t]
            ELSE [c.spec.tags[t] EXCEPT !.gen = o.spec.tags[t].gen]]]

\* C1: after the preparation of a create, user or internal, the stream's
\* generation is 1 and every spec tag with a from carries generation 1,
\* whatever generations the caller submitted.
C1_CreateStampsGenerationOne ==
    op \in {"create", "internalCreate"} =>
        /\ Deref(prepared).generation = 1
        /\ \A t \in DOMAIN Deref(prepared).spec.tags :
              ~IsNil(Deref(prepared).spec.tags[t].from)
                  => Deref(prepared).spec.tags[t].gen = Ptr(1)

\* A create whose caller submitted another stream generation and another
\* generation on a tag with a from.
C1_Witness ==
    /\ op = "create"
    /\ Deref(cand).generation = MaxGen
    /\ \E t \in DOMAIN Deref(cand).spec.tags :
          /\ ~IsNil(Deref(cand).spec.tags[t].from)
          /\ Deref(cand).spec.tags[t].gen = Ptr(MaxGen)

\* C2 as stated: a spec-update preparation yields old.generation + 1 when the
\* pinned candidate spec differs from the old spec and old.generation
\* otherwise.
C2_Original ==
    SpecUpdateOp =>
        Deref(prepared).generation =
            IF ClaimPinnedSpec(Deref(cand), Deref(old)) # Deref(old).spec
            THEN Deref(old).generation + 1
            ELSE Deref(old).generation

\* C2 amended: a spec-update preparation yields old.generation + 1 when the
\* pinned candidate spec differs from the old spec or old.generation is 0,
\* and old.generation otherwise; the generation never decreases.
C2_GenerationStep ==
    SpecUpdateOp =>
        /\ Deref(prepared).generation =
              IF ClaimPinnedSpec(Deref(cand), Deref(old)) # Deref(old).spec
                 \/ Deref(old).generation = 0
              THEN Deref(old).generation + 1
              ELSE Deref(old).generation
        /\ Deref(prepared).generation >= Deref(old).generation

\* A user update whose candidate differs from the old spec only by a tag
\* generation, which pinning undoes: the generation stays.
C2_Witness ==
    /\ op = "update"
    /\ Deref(old).generation >= 1
    /\ Deref(cand).spec # Deref(old).spec
    /\ Deref(prepared).generation = Deref(old).generation

\* C3: over the operations of a lineage the stored generation never
\* decreases: whatever an operation read from storage, what it leaves there
\* has a generation at least as large.
C3_GenerationNeverDecreases ==
    (op # "idle" /\ ~IsNil(old)) =>
        Deref(stored).generation >= Deref(old).generation

\* The history of a tag in a stream given as a pointer (none for a nil stream).
ClaimHistory(streamPtr, t) ==
    IF IsNil(streamPtr) THEN <<>> ELSE Items(Deref(streamPtr).status.tags, t)

ClaimPinned(t) == Deref(prepared).spec.tags[t].gen

\* The tags of the candidate that exist in the old spec with an unchanged
\* from and were submitted with a generation other than 0.
ClaimPinnedTags ==
    {t \in DOMAIN Deref(cand).spec.tags \cap DOMAIN Deref(old).spec.tags :
        /\ ClaimFromUnchanged(Deref(old).spec.tags[t], Deref(cand).spec.tags[t])
        /\ ~IsNil(Deref(cand).spec.tags[t].gen)
        /\ Deref(cand).spec.tags[t].gen # Ptr(0)}

\* C5 as stated: after PrepareForUpdate such a tag carries the old spec tag's
\* generation.
C5_Original ==
    op = "update" =>
        \A t \in ClaimPinnedTags : ClaimPinned(t) = Deref(old).spec.tags[t].gen

\* C5 amended: after PrepareForUpdate such a tag carries the old spec tag's
\* generation when the old spec tag has one, and the stream's generation
\* after preparation when it has none.
C5_GenerationPinned ==
    op = "update" =>
        \A t \in ClaimPinnedTags :
            ClaimPinned(t) = IF IsNil(Deref(old).spec.tags[t].gen)
                             THEN Ptr(Deref(prepared).generation)
                             ELSE Deref(old).spec.tags[t].gen

\* A user update that submits a generation other than the old one on an
\* existing tag with the same from.
C5_Witness ==
    /\ op = "update"
    /\ \E t \in ClaimPinnedTags :
          /\ ~IsNil(Deref(old).spec.tags[t].gen)
          /\ Deref(cand).spec.tags[t].gen # Deref(old).spec.tags[t].gen

\* C6: in a spec-update preparation a tag submitted with generation 0 is
\* stamped with the stream's generation after preparation, which is the old
\* generation plus one and not 0.
C6_ZeroIsRestamped ==
    SpecUpdateOp =>
        \A t \in DOMAIN Deref(cand).spec.tags :
            Deref(cand).spec.tags[t].gen = Ptr(0) =>
                /\ Deref(prepared).spec.tags[t].gen = Ptr(Deref(prepared).generation)
                /\ Deref(prepared).generation = Deref(old).generation + 1
                /\ Deref(prepared).generation # 0

\* A user update that submits generation 0 on an existing tag, with the from
\* the old tag has, the old tag carrying a generation.
C6_Witness ==
    /\ op = "update"
    /\ \E t \in DOMAIN Deref(cand).spec.tags \cap DOMAIN Deref(old).spec.tags :
          /\ Deref(cand).spec.tags[t].gen = Ptr(0)
          /\ Deref(cand).spec.tags[t].from = Deref(old).spec.tags[t].from
          /\ ~IsNil(Deref(old).spec.tags[t].gen)

\* C7 as stated: the internal update keeps the generation the caller
\* submitted on an existing unchanged tag, and keeps the candidate's status
\* tags.
C7_Original ==
    op = "internalUpdate" =>
        /\ \A t \in ClaimPinnedTags : ClaimPinned(t) = Deref(cand).spec.tags[t].gen
        /\ Deref(prepared).status.tags = Deref(cand).status.tags

\* C7 amended: the internal update pins the generation of an existing
\* unchanged tag as the user update does (to the old spec tag's generation,
\* or to the stream's generation when the old tag has none), and keeps the
\* candidate's status tags.
C7_InternalPinsKeepsStatus ==
    op = "internalUpdate" =>
        /\ \A t \in ClaimPinnedTags :
              ClaimPinned(t) = IF IsNil(Deref(old).spec.tags[t].gen)
                               THEN Ptr(Deref(prepared).generation)
                               ELSE Deref(old).spec.tags[t].gen
        /\ Deref(prepared).status.tags = Deref(cand).status.tags

\* An internal update that submits status tags other than the old ones, and
\* another generation on an existing unchanged tag.
C7_Witness ==
    /\ op = "internalUpdate"
    /\ Deref(cand).status.tags # Deref(old).status.tags
    /\ \E t \in ClaimPinnedTags :
          /\ ~IsNil(Deref(old).spec.tags[t].gen)
          /\ Deref(cand).spec.tags[t].gen # Deref(old).spec.tags[t].gen

\* The spec tags of the prepared stream whose from names a namespace other
\* than the stream's and which are absent from the old spec or changed
\* relative to it (another name, or another namespace after defaulting).
ClaimNewlyCrossNamespace ==
    {t \in DOMAIN Deref(prepared).spec.tags :
        LET ref == Deref(prepared).spec.tags[t] IN
        /\ ~IsNil(ref.from)
        /\ Deref(ref.from).namespace \notin {"", Deref(prepared).namespace}
        /\ \/ IsNil(old)
           \/ t \notin DOMAIN Deref(old).spec.tags
           \/ ~ClaimFromUnchanged(Deref(old).spec.tags[t], ref)}

\* The positions of the separator of the from's kind in its name.
ClaimSeparators(from) ==
    {i \in 1..Len(from.name) :
        from.name[i] = (IF from.kind = "ImageStreamTag" THEN ":" ELSE "@")}

\* The from is a tag or image reference of the form <ref> or <stream><sep><ref>.
ClaimParses(from) ==
    /\ from.kind \in {"ImageStreamTag", "ImageStreamImage"}
    /\ Cardinality(ClaimSeparators(from)) <= 1

\* The stream such a from names: the part before the separator, or the
\* stream itself.
ClaimTarget(from) ==
    IF ClaimSeparators(from) = {} THEN Deref(prepared).name
    ELSE SubSeq(from.name, 1, (CHOOSE i \in ClaimSeparators(from) : TRUE) - 1)

\* The reviews issued for a tag.
ClaimReviews(t) == {i \in 1..Len(checks) : checks[i].tag = t}

\* C8 as stated: a validation with a user issues exactly one review, a get on
\* the stream the from names in the from's namespace, for every newly
\* cross-namespace tag, and none for any other tag.
C8_Original ==
    (UserOp /\ ~NoUser) =>
        /\ \A t \in DOMAIN Deref(prepared).spec.tags :
              Cardinality(ClaimReviews(t)) =
                  IF t \in ClaimNewlyCrossNamespace THEN 1 ELSE 0
        /\ Len(checks) = Cardinality(ClaimNewlyCrossNamespace)

\* C8 amended: a validation with a user issues exactly one review, a get on
\* the stream the from names in the from's namespace, for every newly
\* cross-namespace tag whose from parses as a tag or image reference, and
\* none for any other tag.
C8_OneReviewPerNewCrossNamespaceTag ==
    (UserOp /\ ~NoUser) =>
        LET reviewed == {t \in ClaimNewlyCrossNamespace :
                            ClaimParses(Deref(Deref(prepared).spec.tags[t].from))}
        IN  /\ \A t \in DOMAIN Deref(prepared).spec.tags :
                  Cardinality(ClaimReviews(t)) = IF t \in reviewed THEN 1 ELSE 0
            /\ Len(checks) = Cardinality(reviewed)
            /\ \A i \in 1..Len(checks) :
                  LET from == Deref(Deref(prepared).spec.tags[checks[i].tag].from) IN
                  /\ checks[i].verb = "get"
                  /\ checks[i].resource = "imagestreams"
                  /\ checks[i].resourceName = ClaimTarget(from)
                  /\ checks[i].namespace = from.namespace

\* A user update with two cross-namespace tags, one unchanged since the old
\* spec and one new: one review, for the new one.
C8_Witness ==
    /\ op = "update"
    /\ Len(checks) = 1
    /\ \E t \in DOMAIN Deref(prepared).spec.tags \ ClaimNewlyCrossNamespace :
          /\ ~IsNil(Deref(prepared).spec.tags[t].from)
          /\ Deref(Deref(prepared).spec.tags[t].from).namespace = OtherNamespace
          /\ checks[1].tag # t

\* The answers that deny a review.
ClaimDenying == {"denied", "error", "empty"}

\* C9: when the review of a tag is denied, fails or comes back empty, the
\* validation returns a Forbidden error on spec.tags[tag].from and nothing
\* is stored; and a Forbidden error on a tag comes only from such a review.
C9_DeniedReviewIsForbidden ==
    UserOp =>
        /\ \A i \in 1..Len(checks) :
              checks[i].answer \in ClaimDenying =>
                  /\ \E j \in 1..Len(errs) :
                        errs[j] = FieldError("FieldForbidden", checks[i].tag, "from")
                  /\ stored = old
        /\ \A j \in 1..Len(errs) :
              errs[j].type = "FieldForbidden" =>
                  /\ errs[j].field = "from"
                  /\ \E i \in 1..Len(checks) :
                        /\ checks[i].tag = errs[j].tag
                        /\ checks[i].answer \in ClaimDenying

\* A create whose review came back empty.
C9_Witness ==
    /\ op = "create"
    /\ \E i \in 1..Len(checks) : checks[i].answer = "empty"
    /\ stored = Nil

\* C10: a tag whose review was denied is not resolved afterwards in the same
\* call: no stream is looked up for it and its history gets no entry.
C10_DeniedTagIsNotResolved ==
    UserOp =>
        \A i \in 1..Len(checks) :
            checks[i].answer \in ClaimDenying =>
                /\ \A k \in 1..Len(lookups) : lookups[k].tag # checks[i].tag
                /\ ClaimHistory(obj, checks[i].tag) = ClaimHistory(old, checks[i].tag)

\* C11: after the preparation of a status update the stream's spec, tags and
\* repository, is the old stream's spec, whatever spec the candidate carried.
C11_StatusUpdateKeepsSpec ==
    op = "statusUpdate" => Deref(prepared).spec = Deref(old).spec

\* A status update whose candidate carries spec tags and a spec repository
\* other than the old ones.
C11_Witness ==
    /\ op = "statusUpdate"
    /\ Deref(cand).spec.tags # Deref(old).spec.tags
    /\ Deref(cand).spec.repo # Deref(old).spec.repo
    /\ Deref(old).spec.tags # EmptyMap

\* The tags of a status update whose incoming head has generation 0 and an
\* old head.
ClaimZeroHeads ==
    {t \in DOMAIN Deref(cand).status.tags :
        /\ Len(Deref(cand).status.tags[t]) > 0
        /\ Deref(cand).status.tags[t][1].gen = 0
        /\ Len(ClaimHistory(old, t)) > 0}

\* The incoming head of the tag has the old head's image and reference.
ClaimSameContent(t) ==
    /\ Deref(cand).status.tags[t][1].image = ClaimHistory(old, t)[1].image
    /\ Deref(cand).status.tags[t][1].ref = ClaimHistory(old, t)[1].ref

\* C12: in a status update, a head that arrives at generation 0 with the
\* image and reference of the old head leaves preparation at the stream's
\* generation, whatever generation the old head and the spec tag carry (the
\* candidate carrying the stored generation, so that the stream has one
\* current generation).
C12_SameHeadGetsStreamGeneration ==
    (op = "statusUpdate" /\ Deref(cand).generation = Deref(old).generation) =>
        \A t \in ClaimZeroHeads :
            ClaimSameContent(t) =>
                Deref(prepared).status.tags[t][1].gen = Deref(prepared).generation

\* The reference of the old side of a call: an empty one when it has none.
ClaimOldFrom == IF IsNil(Deref(call).old.from) THEN ObjectReference("", <<>>, "")
                ELSE Deref(Deref(call).old.from)

ClaimNextFrom == Deref(Deref(call).next.from)

\* The call's new reference is set: it has a from whose kind and name are not
\* both empty.
ClaimNextSet ==
    /\ call # Nil
    /\ ~IsNil(Deref(call).next.from)
    /\ ~(ClaimNextFrom.kind = "" /\ ClaimNextFrom.name = <<>>)

\* The two references of the call have the same name and the same namespace
\* after defaulting.
ClaimSameNameAndNamespace ==
    /\ ClaimOldFrom.name = ClaimNextFrom.name
    /\ ClaimNamespace(ClaimOldFrom) = ClaimNamespace(ClaimNextFrom)

\* C13: tagRefChanged returns true whenever the new reference is set and the
\* old reference differs from it in kind, in name or in namespace after
\* defaulting, whatever the generations.
C13_KindNameNamespaceAlwaysFlag ==
    (/\ ClaimNextSet
     /\ ~IsNil(Deref(call).old.from)
     /\ (ClaimOldFrom.kind # ClaimNextFrom.kind \/ ~ClaimSameNameAndNamespace))
        => Deref(call).changed

\* C14: when the new reference is set and the two references have the same
\* name and the same namespace after defaulting, tagRefChanged returns true
\* exactly when both sides carry a generation, the generations differ and the
\* new one is 0.
C14_GenerationRule ==
    (ClaimNextSet /\ ClaimSameNameAndNamespace) =>
        (Deref(call).changed <=>
            /\ ~IsNil(Deref(call).old.gen)
            /\ ~IsNil(Deref(call).next.gen)
            /\ Deref(call).old.gen # Deref(call).next.gen
            /\ Deref(call).next.gen = Ptr(0))

\* A call whose references have the same name, one with the stream's
\* namespace written out and one without, the old generation 1 and the new 0:
\* changed.
C14_Witness ==
    /\ ClaimNextSet /\ ClaimSameNameAndNamespace
    /\ ClaimOldFrom.namespace # ClaimNextFrom.namespace
    /\ Deref(call).old.gen = Ptr(1)
    /\ Deref(call).next.gen = Ptr(0)
    /\ Deref(call).changed

\* The generation the stamping rule gives a head that differs from the old
\* head: the spec tag's when the old spec has the tag with a generation, the
\* stream's otherwise.
ClaimSpecTagOrStream(t) ==
    IF t \in DOMAIN Deref(old).spec.tags /\ ~IsNil(Deref(old).spec.tags[t].gen)
    THEN Deref(Deref(old).spec.tags[t].gen)
    ELSE Deref(prepared).generation

\* The tags of a status update whose incoming history is not empty.
ClaimIncoming == {t \in DOMAIN Deref(cand).status.tags : Len(Deref(cand).status.tags[t]) > 0}

\* What the stamping rule leaves alone: the tags, every non-head event, every
\* field of a head but its generation, and a head that arrives with a
\* generation other than 0.
ClaimStampingFrame ==
    /\ DOMAIN Deref(prepared).status.tags = DOMAIN Deref(cand).status.tags
    /\ \A t \in DOMAIN Deref(cand).status.tags \ ClaimIncoming :
          Deref(prepared).status.tags[t] = <<>>
    /\ \A t \in ClaimIncoming :
          LET in == Deref(cand).status.tags[t]
              out == Deref(prepared).status.tags[t]
          IN  /\ Tail(out) = Tail(in)
              /\ [out[1] EXCEPT !.gen = 0] = [in[1] EXCEPT !.gen = 0]
              /\ in[1].gen # 0 => out[1] = in[1]

\* C15 as stated: in a status update, a head that arrives at generation 0
\* and differs from the old head (another image or reference, or no old head
\* at all) is stamped with the spec tag's generation when the old spec has
\* the tag with a generation and with the stream's generation otherwise;
\* everything else is left as submitted (the candidate carrying the stored
\* generation, so that the stream has one generation).
C15_Original ==
    (op = "statusUpdate" /\ Deref(cand).generation = Deref(old).generation) =>
        /\ ClaimStampingFrame
        /\ \A t \in ClaimIncoming :
              (/\ Deref(cand).status.tags[t][1].gen = 0
               /\ (t \in ClaimZeroHeads => ~ClaimSameContent(t)))
              => Deref(prepared).status.tags[t][1].gen = ClaimSpecTagOrStream(t)

\* C15 amended: a head that arrives at generation 0 is stamped with the
\* stream's generation when the tag has no old history, and, when it differs
\* from the old head in image or reference, with the spec tag's generation
\* when the old spec has the tag with a generation and with the stream's
\* generation otherwise; everything else is left as submitted.
C15_StampingRule ==
    op = "statusUpdate" =>
        /\ ClaimStampingFrame
        /\ \A t \in ClaimIncoming :
              Deref(cand).status.tags[t][1].gen = 0 =>
                  /\ t \notin ClaimZeroHeads
                        => Deref(prepared).status.tags[t][1].gen = Deref(prepared).generation
                  /\ (t \in ClaimZeroHeads /\ ~ClaimSameContent(t))
                        => Deref(prepared).status.tags[t][1].gen = ClaimSpecTagOrStream(t)

\* A status update that puts a new head at generation 0 on a history, for a
\* tag whose spec tag carries a generation other than the stream's.
C15_Witness ==
    /\ op = "statusUpdate"
    /\ \E t \in ClaimZeroHeads :
          /\ ~ClaimSameContent(t)
          /\ t \in DOMAIN Deref(old).spec.tags
          /\ ~IsNil(Deref(old).spec.tags[t].gen)
          /\ Deref(Deref(old).spec.tags[t].gen) # Deref(prepared).generation
          /\ Deref(cand).generation = Deref(old).generation
          /\ Len(Deref(prepared).status.tags[t]) >= 2

\* The number of entries the resolve pass put at the head of a tag's history.
ClaimAppended(t) == Len(ClaimHistory(obj, t)) - Len(ClaimHistory(prepared, t))

\* C16: every history entry the resolve pass appends in a user create or
\* update carries the stream's generation, and the spec tag that caused it is
\* stored with that generation; an entry taken from another tag or another
\* stream does not keep the generation it had there.
C16_AppendedEntryCarriesStreamGeneration ==
    (UserOp /\ ~NoUser) =>
        /\ Deref(obj).generation = Deref(prepared).generation
        /\ \A t \in DOMAIN Deref(obj).status.tags :
              /\ ClaimAppended(t) >= 0
              /\ \A i \in 1..ClaimAppended(t) :
                    ClaimHistory(obj, t)[i].gen = Deref(obj).generation
              /\ ClaimAppended(t) > 0 =>
                    /\ t \in DOMAIN Deref(obj).spec.tags
                    /\ Deref(obj).spec.tags[t].gen = Ptr(Deref(obj).generation)

\* A user update that takes the head of another stream's tag, an event the
\* other stream holds at another generation, into the history of a tag.
C16_Witness ==
    /\ op = "update"
    /\ errs = <<>>
    /\ \E k \in 1..Len(lookups) :
          /\ lookups[k].answer = "found"
          /\ ClaimAppended(lookups[k].tag) = 1
          /\ ClaimHistory(obj, lookups[k].tag)[1].image = OtherEvent.image
          /\ OtherEvent.gen # Deref(obj).generation

\* The spec tags of the validated stream that refer to a tag or an image the
\* target stream, which was found, does not hold: a tag of another stream
\* that has no history, or a tag of the stream itself without history.
ClaimAbsentTargets ==
    {lookups[k].tag : k \in {i \in 1..Len(lookups) : lookups[i].answer = "foundEmpty"}}
    \cup
    {t \in DOMAIN Deref(prepared).spec.tags :
        /\ Deref(prepared).spec.tags[t].from \in {FromTagB, FromTagBNs}
        /\ (op = "create" \/ t \notin DOMAIN Deref(old).spec.tags)
        /\ ClaimHistory(obj, "b") = <<>>}

\* C17: a changed tag whose reference names a tag or an image id that the
\* target stream, found, does not hold yet gets no error and no history
\* entry from the resolve pass.
C17_AbsentTargetIsNoError ==
    (UserOp /\ ~NoUser) =>
        \A t \in ClaimAbsentTargets :
            /\ \A j \in 1..Len(errs) : errs[j].tag # t
            /\ ClaimHistory(obj, t) = ClaimHistory(prepared, t)

\* A user update with a tag newly referring to an image id of another stream
\* that is found and does not hold it, and a tag newly referring to a tag of
\* the stream itself that has no history: no error.
C17_Witness ==
    /\ op = "update"
    /\ errs = <<>>
    /\ \E t \in ClaimAbsentTargets :
          Deref(Deref(prepared).spec.tags[t].from).kind = "ImageStreamImage"
    /\ \E t \in ClaimAbsentTargets :
          Deref(Deref(prepared).spec.tags[t].from).kind = "ImageStreamTag"

\* C18: after the resolve pass of a user create on a stream whose creation
\* timestamp is not zero, every history entry of the stream carries the
\* stream's creation timestamp.
C18_ConsistentTimestampOnCreate ==
    (op = "create" /\ ~NoUser /\ Deref(obj).ctime # "zero") =>
        \A t \in DOMAIN Deref(obj).status.tags :
            \A i \in 1..Len(Deref(obj).status.tags[t]) :
                Deref(obj).status.tags[t][i].created = Deref(obj).ctime

\* The errors of a list, as a set.
ClaimErrorSet(es) == {es[i] : i \in 1..Len(es)}

C20_SpecTagGenerationsWithinStream ==
    ~IsNil(stored) =>
        \A t \in DOMAIN Deref(stored).spec.tags :
            /\ ~IsNil(Deref(stored).spec.tags[t].gen)
            /\ Deref(Deref(stored).spec.tags[t].gen) >= 1
            /\ Deref(Deref(stored).spec.tags[t].gen) <= Deref(stored).generation

====
